---------------------------- MODULE Spec2Model ----------------------------
(***************************************************************************)
(* Model of the emoji search server (src/src/server.js): the document      *)
(* store (tfidf, meta, emojis), its snapshot on disk, and the two request  *)
(* handlers POST /documents and GET /search/:query.                        *)
(*                                                                         *)
(* Strings are sequences of units.  "G" and "S" are two emoji code points, *)
(* "V" is a variation selector, "face" is an ASCII word.  A string is      *)
(* either made of ASCII words or of emoji code points and selectors.       *)
(* Optional JavaScript values are sequences of length 0 (undefined) or 1.  *)
(* Numbers that the code computes as fractions are kept as exact           *)
(* fractions [num, den]; NaN is the fraction 0/0.                          *)
(***************************************************************************)
EXTENDS Integers, Sequences, FiniteSets, TLC

VARIABLES tfidf, meta, emojis, database, issued, writeFailed, response

vars == <<tfidf, meta, emojis, database, issued, writeFailed, response>>

-----------------------------------------------------------------------------
(* Bounds of the model *)

MaxDocs == 2

MaxLen == 2

MaxLimit == 1

MaxCoord == 1

-----------------------------------------------------------------------------
(* Values *)

Undefined == <<>>

Some(v) == <<v>>

EmojiChars == {"G", "S"}

VS == "V"

AsciiWords == {"face"}

RECURSIVE SeqsUpTo(_, _)
SeqsUpTo(A, n) ==
  IF n = 0 THEN {<<>>}
  ELSE LET shorter == SeqsUpTo(A, n - 1)
       IN  shorter \cup {Append(s, a) : s \in {t \in shorter : Len(t) = n - 1}, a \in A}

AsciiStrings == {<<w>> : w \in AsciiWords}

(* geolocation values of a request body: absent, null, or an object *)
NoGeo == [type |-> "undefined", keys |-> {}, latitude |-> 0, longitude |-> 0]

NullGeo == [type |-> "null", keys |-> {}, latitude |-> 0, longitude |-> 0]

Point(lat, lon) ==
  [type |-> "object", keys |-> {"latitude", "longitude"}, latitude |-> lat, longitude |-> lon]

(* meta values of a request body: absent, null, a string, or an object *)
NoMeta == [type |-> "undefined", geolocation |-> NoGeo]

NullMeta == [type |-> "null", geolocation |-> NoGeo]

StringMeta == [type |-> "string", geolocation |-> NoGeo]

ObjectMeta(geo) == [type |-> "object", geolocation |-> geo]

-----------------------------------------------------------------------------
(* emoji.js and utils.js *)

emojiLib ==
  [c \in EmojiChars |-> IF c = "G" THEN <<"grinning", "face">> ELSE <<"sunglasses", "face">>]

RECURSIVE convertEmojiToKeywords(_)
convertEmojiToKeywords(s) ==
  IF s = <<>> THEN <<>>
  ELSE (IF Head(s) \in DOMAIN emojiLib THEN emojiLib[Head(s)] ELSE <<>>)
       \o convertEmojiToKeywords(Tail(s))

stripVariationSelectors(s) == SelectSeq(s, LAMBDA c : c # VS)

isAscii(s) == \A i \in 1..Len(s) : s[i] \in AsciiWords

-----------------------------------------------------------------------------
(* natural.TfIdf *)

LnMilliTable ==
  << <<0, -693, -1099, -1386, -1609, -1792>>,
     <<693, 0, -405, -693, -916, -1099>>,
     <<1099, 405, 0, -288, -511, -693>>,
     <<1386, 693, 288, 0, -223, -405>>,
     <<1609, 916, 511, 223, 0, -182>> >>

(* 1000 * ln(n / d), rounded *)
LnMilli(n, d) == LnMilliTable[n][d]

Count(term, terms) == Cardinality({i \in 1..Len(terms) : terms[i] = term})

(* addDocument(text, key): the text is a list of keywords joined by spaces, *)
(* which the tokenizer splits again                                        *)
addDocument(index, terms, key) == Append(index, [key |-> key, terms |-> terms])

(* idf(term) = 1 + ln(N / (1 + docsWithTerm)), times 1000 *)
idf(index, term) ==
  LET docsWithTerm == Cardinality({i \in 1..Len(index) : Count(term, index[i].terms) > 0})
  IN  1000 + LnMilli(Len(index), 1 + docsWithTerm)

RECURSIVE tfidfMeasure(_, _, _)
tfidfMeasure(index, terms, d) ==
  IF terms = <<>> THEN 0
  ELSE Count(Head(terms), index[d].terms) * idf(index, Head(terms))
       + tfidfMeasure(index, Tail(terms), d)

-----------------------------------------------------------------------------
(* POST /documents *)

oneOf(branches) == Cardinality({i \in 1..Len(branches) : branches[i]}) = 1

geolocationValid(geo) ==
  oneOf(<< geo.type = "object" /\ geo.keys = {"latitude", "longitude"},
           geo.type = "null" >>)

documentPostValidate(body) ==
  /\ body.emoji # Undefined
  /\ \/ body.meta.type = "undefined"
     \/ oneOf(<< /\ body.meta.type = "object"
                 /\ \/ body.meta.geolocation.type = "undefined"
                    \/ geolocationValid(body.meta.geolocation),
                 body.meta.type = "null" >>)

uuidv4 == issued + 1

(* JSON.stringify({ meta, tfidf, emojis }): a property whose value is *)
(* undefined is left out                                                *)
Stringify(m, t, e) ==
  [meta   |-> [k \in {j \in DOMAIN m : m[j].type # "undefined"} |-> m[k]],
   tfidf  |-> t,
   emojis |-> e]

(* the reply in flight, with the request it answers *)
NoResponse ==
  [route |-> "none", status |-> 0, document |-> Undefined, query |-> <<>>,
   params |-> Undefined, body |-> <<>>]

PostResponse(document, status) ==
  [route |-> "POST", status |-> status, document |-> Some(document), query |-> <<>>,
   params |-> Undefined, body |-> <<>>]

(* a failing call replaces the file all the same *)
writeFileSync_Always(file, data, writeOk) == Some(data)

(* fs.writeFileSync(databasePath, data): the file holds data, or the call *)
(* throws and the file is as it was                                       *)
writeFileSync(file, data, writeOk) == IF writeOk THEN Some(data) ELSE file

(* the assignment is lost *)
Put_Dropped(f, k, v) == f

Put(f, k, v) == [j \in DOMAIN f \cup {k} |-> IF j = k THEN v ELSE f[j]]

PostDocuments(body, writeOk) ==
  IF ~documentPostValidate(body)
  THEN /\ response = NoResponse
       /\ response' = PostResponse(body, 400)
       /\ UNCHANGED <<tfidf, meta, emojis, database, issued, writeFailed>>
  ELSE LET emoji == body.emoji[1]
           key   == uuidv4
       IN  /\ response = NoResponse
           /\ Len(tfidf) < MaxDocs
           /\ issued' = issued + 1
           /\ tfidf' = addDocument(tfidf, convertEmojiToKeywords(emoji), key)
           /\ meta' = Put(meta, key, body.meta)
           /\ emojis' = Put(emojis, key, emoji)
           /\ database' = writeFileSync(database, Stringify(meta', tfidf', emojis'), writeOk)
           /\ writeFailed' = IF writeOk THEN writeFailed ELSE writeFailed \cup {key}
           /\ response' = PostResponse(body, IF writeOk THEN 201 ELSE 500)

-----------------------------------------------------------------------------
(* Fractions *)

Frac(n, d) == [num |-> n, den |-> d]

Zero == Frac(0, 1)

RECURSIVE GCD(_, _)
GCD(a, b) == IF b = 0 THEN a ELSE GCD(b, a % b)

(* both fractions over their least common denominator *)
FracLess(a, b) ==
  LET g == GCD(a.den, b.den) IN a.num * (b.den \div g) < b.num * (a.den \div g)

FracAdd(a, b) ==
  LET g == GCD(a.den, b.den)
  IN  Frac(a.num * (b.den \div g) + b.num * (a.den \div g), (a.den \div g) * b.den)

(* x || 0 for an optional fraction: undefined, NaN and 0 give 0 *)
OrZero(x) == IF x = Undefined \/ x[1].den = 0 \/ x[1].num = 0 THEN Zero ELSE x[1]

-----------------------------------------------------------------------------
(* lodash *)

RECURSIVE Sum(_)
Sum(s) == IF s = <<>> THEN 0 ELSE Head(s) + Sum(Tail(s))

RECURSIVE Flatten(_)
Flatten(ss) == IF ss = <<>> THEN <<>> ELSE Head(ss) \o Flatten(Tail(ss))

(* the order is left ascending *)
Reverse_Missing(s) == s

Reverse(s) == [i \in 1..Len(s) |-> s[Len(s) + 1 - i]]

(* no truncation *)
Take_All(s, n) == s

Take(s, n) == SubSeq(s, 1, IF n < Len(s) THEN n ELSE Len(s))

(* _.sortBy(s, iteratee), with keys[i] the iteratee's value for s[i]: *)
(* a stable ascending sort                                            *)
SortBy(s, keys) ==
  LET n == Len(s)
      rank(i) == 1 + Cardinality({j \in 1..n :
                        \/ FracLess(keys[j], keys[i])
                        \/ ~FracLess(keys[i], keys[j]) /\ j < i})
  IN  [p \in 1..n |-> s[CHOOSE i \in 1..n : rank(i) = p]]

(* _.split(string, ''): one element per symbol; a variation selector *)
(* belongs to the symbol before it                                    *)
RECURSIVE Split(_)
Split(s) ==
  IF s = <<>> THEN <<>>
  ELSE IF Len(s) >= 2 /\ s[2] = VS
       THEN <<SubSeq(s, 1, 2)>> \o Split(SubSeq(s, 3, Len(s)))
       ELSE <<SubSeq(s, 1, 1)>> \o Split(Tail(s))

(* _.size of a string: its number of symbols *)
Size(s) == Len(Split(s))

(* the length property of a string: its number of UTF-16 code units *)
Length(s) == Sum([i \in 1..Len(s) |-> IF s[i] \in EmojiChars THEN 2 ELSE 1])

(* _.includes(string, target) *)
Includes(s, t) ==
  \E i \in 0..(Len(s) - Len(t)) : SubSeq(s, i + 1, i + Len(t)) = t

(* _.union([ x ], list) *)
Union(x, list) == <<x>> \o SelectSeq(list, LAMBDA y : y # x)

(* _.has(item, 'meta.geolocation') *)
HasGeolocation(item) ==
  item.meta.type = "object" /\ item.meta.geolocation.type # "undefined"

-----------------------------------------------------------------------------
(* geolib *)

Abs(x) == IF x < 0 THEN -x ELSE x

Min(a, b) == IF a < b THEN a ELSE b

Max(a, b) == IF a < b THEN b ELSE a

(* isPointInside(point, corners of the box latitude +- latitudeDelta,  *)
(* longitude +- longitudeDelta): ray casting, which keeps the lower    *)
(* edges and drops the upper ones                                      *)
isPointInside(point, g) ==
  /\ Min(g.longitude - g.longitudeDelta, g.longitude + g.longitudeDelta) <= point.longitude
  /\ point.longitude < Max(g.longitude - g.longitudeDelta, g.longitude + g.longitudeDelta)
  /\ Min(g.latitude - g.latitudeDelta, g.latitude + g.latitudeDelta) <= point.latitude
  /\ point.latitude < Max(g.latitude - g.latitudeDelta, g.latitude + g.latitudeDelta)

(* getDistance, in grid steps *)
getDistance(a, b) == Abs(a.latitude - b.latitude) + Abs(a.longitude - b.longitude)

isPointInCircle(point, center, radius) == getDistance(point, center) < radius

-----------------------------------------------------------------------------
(* GET /search/:query *)

CircleKeys == {"latitude", "longitude", "radius"}

BoxKeys == {"latitude", "longitude", "latitudeDelta", "longitudeDelta"}

searchValidate(params) ==
  params.geofence = Undefined
  \/ oneOf(<< params.geofence[1].keys = CircleKeys, params.geofence[1].keys = BoxKeys >>)

Default(x, d) == IF x = Undefined THEN d ELSE x[1]

DefaultLimit == 50

defaults(params) ==
  [limit                |-> Default(params.limit, DefaultLimit),
   geofence             |-> params.geofence,
   enableFuzzySearch    |-> Default(params.enableFuzzySearch, FALSE),
   persistOrder         |-> Default(params.persistOrder, FALSE),
   onlyKeepPerfectMatch |-> Default(params.onlyKeepPerfectMatch, TRUE),
   truncateSmallMatches |-> Default(params.truncateSmallMatches, TRUE),
   truncateSmallScore   |-> Default(params.truncateSmallScore, FALSE)]

(* the terms natural scores: the words of a plain query, the keywords *)
(* of an emoji query                                                  *)
Keywords(query) == IF isAscii(query) THEN query ELSE convertEmojiToKeywords(query)

(* the division is left out *)
measure1Of_Raw(raw, measure1Sum) == Frac(raw, 1)

(* term.measure1 / measure1Sum *)
measure1Of(raw, measure1Sum) == Frac(raw, measure1Sum)

(* tfidf.tfidfs(kws, callback): one result per indexed document, in *)
(* index order, with measure1 divided by the sum of all measures    *)
Candidates(query) ==
  LET raw == [i \in 1..Len(tfidf) |-> tfidfMeasure(tfidf, Keywords(query), i)]
      measure1Sum == Sum(raw)
  IN  [i \in 1..Len(tfidf) |->
        [key      |-> tfidf[i].key,
         meta     |-> meta[tfidf[i].key],
         emoji    |-> emojis[tfidf[i].key],
         measure1 |-> Some(measure1Of(raw[i], measure1Sum)),
         measure2 |-> Undefined,
         matches  |-> Undefined,
         measure  |-> Undefined]]

(* every contiguous run of symbols, by start then length, joined, *)
(* then sorted by string length                                   *)
ContiguousSubsets(querySplitted) ==
  LET n == Len(querySplitted)
      runs == Flatten([start \in 1..n |->
                 [len \in 1..(n + 1 - start) |->
                    Flatten(SubSeq(querySplitted, start, start + len - 1))]])
  IN  SortBy(runs, [i \in 1..Len(runs) |-> Frac(Length(runs[i]), 1)])

Subsets(query, persistOrder) ==
  IF persistOrder THEN ContiguousSubsets(Split(query)) ELSE Split(query)

RECURSIVE Matches(_, _)
Matches(emoji, subsets) ==
  IF subsets = <<>> THEN <<>>
  ELSE LET subset == subsets[Len(subsets)]
           before == Matches(emoji, SubSeq(subsets, 1, Len(subsets) - 1))
       IN  IF Includes(stripVariationSelectors(emoji), stripVariationSelectors(subset))
           THEN Union(subset, before)
           ELSE before

MatchTotal(emoji, subsets) ==
  Sum([i \in 1..Len(subsets) |->
         IF Includes(stripVariationSelectors(emoji), stripVariationSelectors(subsets[i]))
         THEN Size(subsets[i]) ELSE 0])

(* the n-gram test, run for an emoji query only *)
NGram(result, query, persistOrder) ==
  IF isAscii(query) THEN result
  ELSE LET subsets == Subsets(query, persistOrder)
           subsetLengthSum == Sum([i \in 1..Len(subsets) |-> Size(subsets[i])])
       IN  [i \in 1..Len(result) |->
             [result[i] EXCEPT
                !.measure2 = Some(Frac(MatchTotal(result[i].emoji, subsets), subsetLengthSum)),
                !.matches  = Some(Matches(result[i].emoji, subsets))]]

(* geolib is handed the geolocation of every item that has one, a null *)
(* geolocation too; it then throws or answers false                    *)
GeolibFails(result, geofence) ==
  /\ geofence # Undefined
  /\ \E i \in 1..Len(result) :
       HasGeolocation(result[i]) /\ result[i].meta.geolocation.type = "null"

filterIsPointInside(item, geofence) ==
  IF geofence # Undefined /\ "radius" \notin geofence[1].keys
  THEN \/ ~HasGeolocation(item)
       \/ /\ item.meta.geolocation.type = "object"
          /\ isPointInside(item.meta.geolocation, geofence[1])
  ELSE TRUE

filterIsPointInCircle(item, geofence) ==
  IF geofence # Undefined /\ "radius" \in geofence[1].keys
  THEN \/ ~HasGeolocation(item)
       \/ /\ item.meta.geolocation.type = "object"
          /\ isPointInCircle(item.meta.geolocation, geofence[1], geofence[1].radius)
  ELSE TRUE

GeoFiltered(result, geofence) ==
  SelectSeq(SelectSeq(result, LAMBDA item : filterIsPointInside(item, geofence)),
            LAMBDA item : filterIsPointInCircle(item, geofence))

(* measure1 is never zeroed *)
Fuzzy_Kept(result, enableFuzzySearch) == result

Fuzzy(result, enableFuzzySearch) ==
  IF enableFuzzySearch THEN result
  ELSE [i \in 1..Len(result) |-> [result[i] EXCEPT !.measure1 = Some(Zero)]]

Combined(result) ==
  SelectSeq([i \in 1..Len(result) |->
            [result[i] EXCEPT
               !.measure = Some(FracAdd(OrZero(result[i].measure1), OrZero(result[i].measure2)))]],
         LAMBDA o : o.measure[1].num # 0)

MatchesSize(o) == IF o.matches = Undefined THEN 0 ELSE Len(o.matches[1])

filterPerfectMatch(o, opts) ==
  IF opts.onlyKeepPerfectMatch
  THEN o.measure2 # Undefined /\ o.measure2[1].den # 0 /\ o.measure2[1].num = o.measure2[1].den
  ELSE TRUE

filterSmallMatch(o, opts, result) ==
  IF opts.truncateSmallMatches
  THEN \A i \in 1..Len(result) : MatchesSize(result[i]) <= MatchesSize(o)
  ELSE TRUE

filterSmallScore(o, opts, result) ==
  IF opts.truncateSmallScore
  THEN \A i \in 1..Len(result) : ~FracLess(o.measure[1], result[i].measure[1])
  ELSE TRUE

Ranked(result, opts) ==
  LET kept == SelectSeq(SelectSeq(SelectSeq(result,
                  LAMBDA o : filterPerfectMatch(o, opts)),
                  LAMBDA o : filterSmallMatch(o, opts, result)),
                  LAMBDA o : filterSmallScore(o, opts, result))
      sorted == SortBy(kept, [i \in 1..Len(kept) |-> kept[i].measure[1]])
  IN  Take(Reverse(sorted), opts.limit)

(* the handler's answer: [status, body] *)
Search(query, params, nullPoint) ==
  IF ~searchValidate(params) THEN [status |-> 400, body |-> <<>>]
  ELSE LET opts   == defaults(params)
           scored == NGram(Candidates(query), query, opts.persistOrder)
       IN  IF GeolibFails(scored, opts.geofence) /\ nullPoint = "throw"
           THEN [status |-> 500, body |-> <<>>]
           ELSE [status |-> 200,
                 body   |-> Ranked(Combined(Fuzzy(GeoFiltered(scored, opts.geofence),
                                                  opts.enableFuzzySearch)), opts)]

GetSearch(query, params, nullPoint) ==
  LET answer == Search(query, params, nullPoint)
  IN  /\ response = NoResponse
      /\ response' = [route |-> "GET", status |-> answer.status, document |-> Undefined,
                      query |-> query, params |-> Some(params), body |-> answer.body]
      /\ UNCHANGED <<tfidf, meta, emojis, database, issued, writeFailed>>

(* the client receives the reply; it sends its next request after that *)
Receive ==
  /\ response # NoResponse
  /\ response' = NoResponse
  /\ UNCHANGED <<tfidf, meta, emojis, database, issued, writeFailed>>

-----------------------------------------------------------------------------

Init ==
  /\ tfidf = <<>>
  /\ meta = <<>>
  /\ emojis = <<>>
  /\ database = Undefined
  /\ issued = 0
  /\ writeFailed = {}
  /\ response = NoResponse

NoFlags ==
  [enableFuzzySearch |-> Undefined, persistOrder |-> Undefined,
   onlyKeepPerfectMatch |-> Undefined, truncateSmallMatches |-> Undefined,
   truncateSmallScore |-> Undefined]

Flags(fuzzy, order, perfect, matches, score) ==
  [enableFuzzySearch |-> Some(fuzzy), persistOrder |-> Some(order),
   onlyKeepPerfectMatch |-> Some(perfect), truncateSmallMatches |-> Some(matches),
   truncateSmallScore |-> Some(score)]

AllFlags ==
  {NoFlags} \cup {Flags(a, b, c, d, e) : a \in BOOLEAN, b \in BOOLEAN, c \in BOOLEAN,
                                       d \in BOOLEAN, e \in BOOLEAN}

Params(flags, limit, geofence) ==
  [limit                |-> limit,
   geofence             |-> geofence,
   enableFuzzySearch    |-> flags.enableFuzzySearch,
   persistOrder         |-> flags.persistOrder,
   onlyKeepPerfectMatch |-> flags.onlyKeepPerfectMatch,
   truncateSmallMatches |-> flags.truncateSmallMatches,
   truncateSmallScore   |-> flags.truncateSmallScore]

Limits == {Undefined} \cup {Some(n) : n \in 0..MaxLimit}

-----------------------------------------------------------------------------
(* The store: every shape of request body, snapshot writes that fail, *)
(* searches with the default options                                  *)

StoreEmojis == {Undefined, Some(<<>>), Some(<<"G">>), Some(<<"G", VS>>)}

LatitudeOnly ==
  [type |-> "object", keys |-> {"latitude"}, latitude |-> 0, longitude |-> 0]

ExtraField ==
  [type |-> "object", keys |-> {"latitude", "longitude", "altitude"},
   latitude |-> 0, longitude |-> 0]

StoreMetas ==
  {NoMeta, NullMeta, StringMeta, ObjectMeta(NoGeo), ObjectMeta(NullGeo),
   ObjectMeta(Point(0, 0)), ObjectMeta(LatitudeOnly), ObjectMeta(ExtraField)}

StoreQueries == {<<"G">>, <<"G", VS>>, <<"face">>}

Next ==
  \/ \E body \in [emoji : StoreEmojis, meta : StoreMetas], writeOk \in BOOLEAN :
       PostDocuments(body, writeOk)
  \/ \E query \in StoreQueries :
       GetSearch(query, Params(NoFlags, Undefined, Undefined), "throw")
  \/ Receive

Spec == Init /\ [][Next]_vars

-----------------------------------------------------------------------------
(* Ranking: emoji documents without metadata, every query and option set *)

RankEmojis == SeqsUpTo(EmojiChars, MaxLen) \ {<<>>}

NextRank ==
  \/ \E emoji \in RankEmojis : PostDocuments([emoji |-> Some(emoji), meta |-> NoMeta], TRUE)
  \/ \E query \in RankEmojis \cup AsciiStrings, flags \in AllFlags, limit \in Limits :
       GetSearch(query, Params(flags, limit, Undefined), "throw")
  \/ Receive

SpecRank == Init /\ [][NextRank]_vars

-----------------------------------------------------------------------------
(* Geofences: documents with and without a geolocation, every geofence form *)

GeoEmojis == {<<"G">>, <<"G", "G">>}

GeoPoints == {Point(c, c) : c \in 0..MaxCoord}

GeoMetas ==
  {NoMeta, NullMeta, ObjectMeta(NoGeo), ObjectMeta(NullGeo)}
  \cup {ObjectMeta(p) : p \in GeoPoints}

Circle(lat, lon, radius) ==
  [keys |-> CircleKeys, latitude |-> lat, longitude |-> lon, radius |-> radius,
   latitudeDelta |-> 0, longitudeDelta |-> 0]

Box(lat, lon, latD, lonD) ==
  [keys |-> BoxKeys, latitude |-> lat, longitude |-> lon, radius |-> 0,
   latitudeDelta |-> latD, longitudeDelta |-> lonD]

NoRadius ==
  [keys |-> {"latitude", "longitude"}, latitude |-> 0, longitude |-> 0, radius |-> 0,
   latitudeDelta |-> 0, longitudeDelta |-> 0]

Geofences == {Undefined, Some(Circle(0, 0, 1)), Some(Box(0, 0, 1, 1)), Some(NoRadius)}

NullPointOutcomes == {"throw", "false"}

NextGeo ==
  \/ \E emoji \in GeoEmojis, m \in GeoMetas :
       PostDocuments([emoji |-> Some(emoji), meta |-> m], TRUE)
  \/ \E flags \in AllFlags, limit \in Limits, geofence \in Geofences,
        nullPoint \in NullPointOutcomes :
       GetSearch(<<"G">>, Params(flags, limit, geofence), nullPoint)
  \/ Receive

SpecGeo == Init /\ [][NextGeo]_vars

-----------------------------------------------------------------------------
(* Properties *)

Replied == response.route = "GET" /\ response.status = 200

Asked == response.params[1]

Opts == defaults(Asked)

Keys(body) == {body[i].key : i \in 1..Len(body)}

IndexKeys == {tfidf[i].key : i \in 1..Len(tfidf)}

IsOne(x) == x # Undefined /\ x[1].den > 0 /\ x[1].num = x[1].den

(* C1: a search for a stored document's exact emoji sequence, with         *)
(* onlyKeepPerfectMatch, no geofence and a limit of at least the number of *)
(* documents, returns that document with measure2 = 1, whatever the other  *)
(* options are.                                                            *)
C1_ExactQueryFindsDocument ==
  (Replied /\ Opts.onlyKeepPerfectMatch /\ Opts.geofence = Undefined
           /\ Opts.limit >= Len(tfidf))
  => \A k \in DOMAIN emojis :
       emojis[k] = response.query
       => \E i \in 1..Len(response.body) :
            response.body[i].key = k /\ IsOne(response.body[i].measure2)

(* C2: the ids in the TF-IDF index, in the emoji map and in the metadata  *)
(* map are the same set, with one index entry per id, and every entry a   *)
(* search returns is an id of all three with the emoji and metadata       *)
(* stored for it.                                                         *)
C2_StoreConsistent ==
  /\ IndexKeys = DOMAIN emojis
  /\ IndexKeys = DOMAIN meta
  /\ Cardinality(IndexKeys) = Len(tfidf)
  /\ Replied => \A i \in 1..Len(response.body) :
                  /\ response.body[i].key \in IndexKeys
                  /\ response.body[i].emoji = emojis[response.body[i].key]
                  /\ response.body[i].meta = meta[response.body[i].key]

C2_SearchAfterInserts == Replied /\ Len(tfidf) = 2 /\ Len(response.body) = 2

MalformedGeolocation(geo) == geo.type = "object" /\ geo.keys # {"latitude", "longitude"}

MustReject(document) ==
  \/ document.emoji = Some(<<>>)
  \/ document.meta.type = "object" /\ MalformedGeolocation(document.meta.geolocation)

(* C3: a document whose emoji sequence is empty or whose geolocation is   *)
(* malformed is answered with a validation error, and the index, the      *)
(* metadata map, the emoji map and the snapshot are left as they were.    *)
C3_RejectedBeforeMutation ==
  [][(response'.route = "POST" /\ MustReject(response'.document[1]))
     => (response'.status = 400 /\ UNCHANGED <<tfidf, meta, emojis, database>>)]_vars

(* C4: an insert whose snapshot write fails answers with an error, keeps  *)
(* the new document in the index and both maps, where every later search  *)
(* enumerates it, and leaves the snapshot as it was; an insert whose      *)
(* write succeeds leaves the snapshot equal to the serialized in-memory   *)
(* state, the documents of earlier failed writes included.                *)
C4_FailedSaveKeepsInsert ==
  [][/\ (response'.route = "POST" /\ response'.status = 500)
        => /\ database' = database
           /\ issued' \in writeFailed'
           /\ Len(tfidf') = Len(tfidf) + 1
     /\ (response'.route = "POST" /\ response'.status = 201)
        => /\ database' = Some(Stringify(meta', tfidf', emojis'))
           /\ writeFailed' \subseteq DOMAIN database'[1].emojis
           /\ \A k \in writeFailed' : \E i \in 1..Len(database'[1].tfidf) :
                database'[1].tfidf[i].key = k
     /\ \A k \in writeFailed' :
          /\ k \in DOMAIN emojis' /\ k \in DOMAIN meta'
          /\ \E i \in 1..Len(tfidf') : tfidf'[i].key = k
     /\ (response'.route = "GET" /\ response'.status = 200)
        => \A k \in writeFailed' : k \in Keys(Candidates(response'.query))]_vars

C4_SavedAfterFailedSave ==
  /\ response.route = "POST" /\ response.status = 201
  /\ writeFailed # {}
  /\ database # Undefined
  /\ writeFailed \subseteq DOMAIN database[1].emojis

Sorted(body) ==
  \A i \in 1..(Len(body) - 1) : ~FracLess(body[i].measure[1], body[i + 1].measure[1])

(* C5: the returned list is ordered by combined measure, non-increasing,  *)
(* and holds at most limit entries.                                       *)
C5_SortedAndLimited ==
  Replied => Sorted(response.body) /\ Len(response.body) <= Opts.limit

C5_MoreThanLimitPass ==
  /\ Replied
  /\ Asked.limit = Some(1)
  /\ Len(response.body) = 1
  /\ LET all == Search(response.query, [Asked EXCEPT !.limit = Undefined], "throw").body
     IN  Len(all) = 2 /\ FracLess(all[2].measure[1], all[1].measure[1])

NoGeolocation(k) ==
  meta[k].type \in {"undefined", "null"} \/ meta[k].geolocation.type \in {"undefined", "null"}

(* C6: under any geofence, a document without geolocation metadata is in  *)
(* the result exactly when it is in the result of the same search without *)
(* the geofence.                                                          *)
C6_NoGeolocationNeverExcluded ==
  (response.route = "GET" /\ response.status # 400 /\ Asked.geofence # Undefined)
  => \A k \in DOMAIN meta :
       NoGeolocation(k)
       => (k \in Keys(response.body)
           <=> k \in Keys(Search(response.query, [Asked EXCEPT !.geofence = Undefined],
                                 "throw").body))

RECURSIVE Measure1Total(_)
Measure1Total(body) ==
  IF body = <<>> THEN Zero
  ELSE FracAdd(body[1].measure1[1], Measure1Total(Tail(body)))

SomeDocumentMatches ==
  \E i \in 1..Len(tfidf) : tfidfMeasure(tfidf, Keywords(response.query), i) > 0

MatchingKeys ==
  {tfidf[i].key : i \in {j \in 1..Len(tfidf) :
                          tfidfMeasure(tfidf, Keywords(response.query), j) > 0}}

FuzzyReplied ==
  Replied /\ Opts.enableFuzzySearch /\ SomeDocumentMatches /\ response.body # <<>>

(* C7 as stated: with enableFuzzySearch, the measure1 values of a         *)
(* non-empty returned list sum to 1.                                      *)
C7_ReturnedMeasure1SumsToOne ==
  FuzzyReplied
  => Measure1Total(response.body).num = Measure1Total(response.body).den

(* C7 as amended: with enableFuzzySearch, the measure1 values of a        *)
(* non-empty returned list sum to at most 1, and to exactly 1 when the    *)
(* list holds every document whose TF-IDF measure is not zero.            *)
C7_ReturnedMeasure1AtMostOne ==
  FuzzyReplied
  => /\ Measure1Total(response.body).num <= Measure1Total(response.body).den
     /\ MatchingKeys \subseteq Keys(response.body)
        => Measure1Total(response.body).num = Measure1Total(response.body).den

C7_AllMatchingReturned ==
  /\ FuzzyReplied
  /\ Asked.geofence # Undefined
  /\ Len(response.body) = 2
  /\ MatchingKeys \subseteq Keys(response.body)

(* C8: at most one of the three result filters is applied: with           *)
(* onlyKeepPerfectMatch the result does not depend on truncateSmallMatches *)
(* and truncateSmallScore, and without it but with truncateSmallMatches   *)
(* the result does not depend on truncateSmallScore.                      *)
C8_AtMostOneFilterApplied ==
  Replied
  => /\ Opts.onlyKeepPerfectMatch
        => \A m \in BOOLEAN, s \in BOOLEAN :
             Search(response.query,
                    [Asked EXCEPT !.onlyKeepPerfectMatch = Some(TRUE),
                                  !.truncateSmallMatches = Some(m),
                                  !.truncateSmallScore = Some(s)], "throw").body
             = response.body
     /\ (~Opts.onlyKeepPerfectMatch /\ Opts.truncateSmallMatches)
        => \A s \in BOOLEAN :
             Search(response.query, [Asked EXCEPT !.truncateSmallScore = Some(s)],
                    "throw").body
             = response.body

SameMeasure(a, b) == ~FracLess(a.measure[1], b.measure[1]) /\ ~FracLess(b.measure[1], a.measure[1])

(* C9 as stated: two returned documents with equal combined measure are   *)
(* in the order of their insertion.                                       *)
C9_TiesInInsertionOrder ==
  Replied => \A i \in 1..Len(response.body), j \in 1..Len(response.body) :
               (i < j /\ SameMeasure(response.body[i], response.body[j]))
               => response.body[i].key < response.body[j].key

(* C9 as amended: two returned documents with equal combined measure are  *)
(* in the reverse of the order of their insertion: the later one first.   *)
C9_TiesInReverseInsertionOrder ==
  Replied => \A i \in 1..Len(response.body), j \in 1..Len(response.body) :
               (i < j /\ SameMeasure(response.body[i], response.body[j]))
               => response.body[i].key > response.body[j].key

C9_TieReturned ==
  /\ Replied
  /\ Len(response.body) = 2
  /\ SameMeasure(response.body[1], response.body[2])

(* C10: a plain query returns an empty list unless enableFuzzySearch is   *)
(* true and onlyKeepPerfectMatch is false; under the default options it   *)
(* always does.                                                           *)
C10_PlainQueryEmpty ==
  (Replied /\ isAscii(response.query))
  => /\ ~(Opts.enableFuzzySearch /\ ~Opts.onlyKeepPerfectMatch) => response.body = <<>>
     /\ (\A i \in 1..Len(response.body) :
           response.body[i].measure2 = Undefined /\ response.body[i].matches = Undefined)
     /\ Asked = Params(NoFlags, Asked.limit, Asked.geofence) => response.body = <<>>

C10_PlainQueryMatchingDocuments ==
  /\ Replied
  /\ isAscii(response.query)
  /\ Asked = Params(NoFlags, Undefined, Undefined)
  /\ SomeDocumentMatches
  /\ response.body = <<>>

=============================================================================
